---- MODULE Spec2Model ----
(***************************************************************************)
(* A model of the e-ink frame programs of waveshare-pinfo:                 *)
(*   - GooglePhotosService's photo-list cache (google_photos_service.py),  *)
(*   - photo_display.main, alone (run_display.py) and under                *)
(*     app.run_display_loop next to the Flask /token handler (app.py),     *)
(*   - PhotoDisplayService.run (photo_display_service.py),                 *)
(*   - EInkDisplay.run (eink_display.py).                                  *)
(* The variable prog says which entry point the process was started from.  *)
(***************************************************************************)
EXTENDS Integers, Sequences, FiniteSets, TLC

\* ------------------------------------------------------------------ bounds
\* photos an album may hold
MaxPhotos == 2
\* last reading of the clock in the cache harness
MaxTime == 5
\* largest cache_duration tried, in clock units
MaxTTL == 2
\* get_next_photo calls recorded in the cache harness
MaxCalls == 3
\* largest rotation_interval tried, in clock units
MaxInterval == 2
\* update_display ticks of EInkDisplay.run followed while the weather changes
\* (with steady weather update_count stays below 2 and the run is followed on)
MaxTicks == 3

\* share tokens posted to /token
MaxTokens == 2

\* Python's None where the other values are integers
None == -1

VARIABLES
    prog,                  \* the entry point that was started
    now,                   \* datetime.now(), in clock units
    \* GooglePhotosService
    photo_cache,           \* self.photo_cache
    current_photo_index,   \* self.current_photo_index
    last_fetch_time,       \* self.last_fetch_time
    cache_duration,        \* self.cache_duration
    callLog,               \* history: the get_next_photo calls made so far
    \* the panel and its driver object epd
    shown,                 \* what the panel shows
    inFlight,              \* Panel Driver calls begun and not yet returned
    epdState,              \* "off", "awake", "asleep" or "released"
    \* history of the tick in progress (or of the last one)
    tickFetch,             \* "idle", "ok" or "failed": the tick's content fetch
    tickOps,               \* Panel Driver calls begun since the tick started
    tickShown,             \* contents handed to the panel's refresh this tick, in order
    tickErrors,            \* what raised since the tick started: "panel", "compose"
    \* the thread running the display loop
    pc,                    \* where it is
    disp,                  \* the display_image / display_message call in progress
    jctx,                  \* who called update_photo_job: "first" or "sched"
    jobs,                  \* jobs registered with the schedule module
    jobsLeft,              \* run_pending: registered jobs not yet looked at
    exitCause,             \* why the loop stopped: "none" while it runs
    interrupted,           \* history: a KeyboardInterrupt was raised inside the loop of run
    \* configuration and credentials
    envFile,               \* the share token in the .env file (0: the first one)
    osEnv,                 \* the share token in os.environ
    cycleCfg,              \* the configuration the photo service was built from
    credsOK,               \* whether authenticate() can succeed
    \* app.py: the flag and the request thread of /token
    needs_reload,
    hpc,                   \* "idle", "write" (before set_key) or "flag"
    htoken,                \* the token of the request in progress
    posted,                \* tokens posted so far
    response,              \* history: the status of the last /token response (0: none)
    \* PhotoDisplayService
    last_photo_update,     \* self.last_photo_update
    current_photo_info,    \* self.current_photo_info (and current_photo_image)
    pds_update_count,      \* self.update_count
    rotation_interval,     \* self.rotation_interval, in clock units
    next_run,              \* when the scheduled update_display is due
    fetchedPhoto,          \* update_display's local photo_info
    \* EInkDisplay
    update_count,          \* self.update_count
    last_weather_hash,     \* self.last_weather_hash
    painted,               \* history: the readings drawn by the last full repaint
    last_minute,           \* self.last_minute
    partial_update_count,  \* self.partial_update_count (0 while unset)
    last_minute_check,     \* run's local last_minute_check
    weather,               \* what the sensors report now
    minute,                \* the minute of datetime.now()
    sinceMain,             \* minutes since the scheduled update_display was due
    hasPartial,            \* whether epd has the partial-update methods
    steady,                \* a run in which the weather never changes
    ticks,                 \* history: update_display ticks made by run
    skips,                 \* history: update_display calls in a row that skipped the repaint
    timeStale              \* history: the minute changed since the panel last drew the time

cacheVars == <<photo_cache, current_photo_index, last_fetch_time, cache_duration>>
panelVars == <<shown, inFlight, epdState>>
tickVars == <<tickFetch, tickOps, tickShown, tickErrors>>
threadVars == <<pc, disp, jctx, jobs, jobsLeft, exitCause>>
cfgVars == <<envFile, osEnv, cycleCfg, credsOK>>
webVars == <<needs_reload, hpc, htoken, posted, response>>
pdsVars == <<last_photo_update, current_photo_info, pds_update_count, rotation_interval,
             next_run, fetchedPhoto>>
einkVars == <<update_count, last_weather_hash, painted, last_minute, partial_update_count,
              last_minute_check, weather, minute, sinceMain, hasPartial, steady, ticks,
              skips, timeStale>>
vars == <<prog, now, cacheVars, callLog, panelVars, tickVars, threadVars, interrupted,
          cfgVars, webVars, pdsVars, einkVars>>

\* What the programs leave alone: the cache harness, photo_display / app.py,
\* PhotoDisplayService and EInkDisplay.
NotCacheVars == <<panelVars, tickVars, threadVars, interrupted, cfgVars, webVars, pdsVars,
                  einkVars>>
NotFrameVars == <<now, cacheVars, callLog, interrupted, pdsVars, einkVars>>
NotPdsVars == <<cacheVars, callLog, inFlight, disp, jobsLeft, cfgVars, webVars, einkVars>>
NotEinkVars == <<now, cacheVars, callLog, inFlight, disp, jctx, jobsLeft, cfgVars, webVars,
                 pdsVars>>

\* ------------------------------------------------- GooglePhotosService
Photos == 1..MaxPhotos

\* The lists get_album_photos can build: photos of the album, none twice.
Albums ==
    {s \in UNION {[1..n -> Photos] : n \in 0..MaxPhotos} :
        \A i, j \in DOMAIN s : i # j => s[i] # s[j]}

\* get_album_photos: the list on success; [] on HttpError or any other error.
AlbumFetches ==
    {[outcome |-> "fail", photos |-> <<>>]} \cup
    {[outcome |-> "ok", photos |-> a] : a \in Albums}

\* random.shuffle: any order of the same photos.
Shuffles(a) ==
    {s \in Albums : Len(s) = Len(a) /\ {s[i] : i \in DOMAIN s} = {a[i] : i \in DOMAIN a}}

\* refresh_photo_cache with "or self.photo_cache" for "or not self.photo_cache"
NeedsRefreshNotDropped ==
    \/ last_fetch_time = None
    \/ now - last_fetch_time > cache_duration
    \/ photo_cache # <<>>

\* The condition of refresh_photo_cache.
NeedsRefresh ==
    \/ last_fetch_time = None
    \/ now - last_fetch_time > cache_duration
    \/ photo_cache = <<>>

\* photo_cache after refresh_photo_cache, when the fetch (if made) gives f and the
\* shuffle gives sh.
CacheAfterRefresh(f, sh) ==
    IF NeedsRefresh THEN (IF f.photos # <<>> THEN sh ELSE f.photos) ELSE photo_cache

\* What get_next_photo returns on the cache c.
NextPhotoResult(c) ==
    IF c = <<>> THEN [kind |-> "None", id |-> 0]
    ELSE IF current_photo_index >= Len(c) THEN [kind |-> "IndexError", id |-> 0]
    ELSE [kind |-> "photo", id |-> c[current_photo_index + 1]]

\* get_next_photo (refresh_photo_cache included) on the service's fields.
GetNextPhoto(f, sh) ==
    LET c == CacheAfterRefresh(f, sh) IN
    /\ photo_cache' = c
    /\ last_fetch_time' = IF NeedsRefresh THEN now ELSE last_fetch_time
    /\ current_photo_index' =
          IF NextPhotoResult(c).kind = "photo"
          THEN (current_photo_index + 1) % Len(c)
          ELSE current_photo_index
    /\ UNCHANGED cache_duration

InitCacheFields ==
    /\ photo_cache = <<>>
    /\ current_photo_index = 0
    /\ last_fetch_time = None
    /\ cache_duration \in 1..MaxTTL

\* ------------------------------------------------------ the cache harness
\* A caller of get_next_photo at arbitrary times.
CallGetNextPhoto ==
    /\ prog = "cache"
    /\ Len(callLog) < MaxCalls
    /\ \E f \in AlbumFetches : \E sh \in Shuffles(f.photos) :
          /\ GetNextPhoto(f, sh)
          /\ callLog' = Append(callLog,
                [t |-> now,
                 age |-> IF last_fetch_time = None THEN None ELSE now - last_fetch_time,
                 pos |-> current_photo_index,
                 len |-> Len(CacheAfterRefresh(f, sh)),
                 fetched |-> NeedsRefresh,
                 outcome |-> IF NeedsRefresh THEN f.outcome ELSE "none",
                 hadPhotos |-> photo_cache # <<>>,
                 kept |-> CacheAfterRefresh(f, sh) = photo_cache,
                 hasPhotos |-> CacheAfterRefresh(f, sh) # <<>>,
                 ret |-> NextPhotoResult(CacheAfterRefresh(f, sh)).kind])
    /\ UNCHANGED <<prog, now, NotCacheVars>>

ClockTick ==
    /\ prog = "cache"
    /\ now < MaxTime
    /\ now' = now + 1
    /\ UNCHANGED <<prog, cacheVars, callLog, NotCacheVars>>

\* ------------------------------------------------------------ the panel
\* The Panel Driver calls of display_image and display_message, in their order.
PanelOps == {"init", "Clear", "display", "sleep"}

NoDisp == [what |-> "none", step |-> "none", calling |-> FALSE]

\* The step of display_image / display_message after step s.
StepAfter(s) ==
    CASE s = "init" -> "Clear"
      [] s = "Clear" -> "compose"
      [] s = "compose" -> "display"
      [] s = "display" -> "sleep"
      [] s = "sleep" -> "end"

\* The panel after the Panel Driver call op returned normally, showing w.
ShownAfter(op, w) ==
    CASE op = "Clear" -> "blank"
      [] op = "display" -> w
      [] OTHER -> shown

EpdAfter(op) ==
    CASE op = "init" -> "awake"
      [] op = "sleep" -> "asleep"
      [] OTHER -> epdState

\* --------------------------------- photo_display.main and run_display_loop
FramePrograms == {"app", "run_display"}

\* The places of the display thread where display_image / display_message runs.
DisplayPcs == {"m_startup", "m_authmsg", "j_show"}

\* The places of main from GooglePhotosService() on: a cycle is running.
CyclePcs ==
    {"m_authmsg", "m_idle_check", "m_idle_sleep", "j_get", "j_show", "m_sched",
     "m_loop_check", "m_pending", "m_sleep"}

\* reload_check(): lambda: needs_reload under app.py, lambda: False by default.
ReloadCheck == IF prog = "app" THEN needs_reload ELSE FALSE

\* Where update_photo_job returns to: main (the first call) or run_pending.
AfterJob == IF jctx = "first" THEN "m_sched" ELSE "m_pending"

\* Where display_image / display_message returns to.
AfterDisplay ==
    CASE pc = "m_startup" -> "m_load"
      [] pc = "m_authmsg" -> "m_idle_check"
      [] pc = "j_show" -> AfterJob

\* An exception leaving main: nothing catches it in run_display_loop (the thread
\* dies) nor in run_display.py (the process ends with a traceback).
Uncaught ==
    /\ pc' = IF prog = "app" THEN "dead" ELSE "crashed"
    /\ exitCause' = "error"

\* main returns (reload_check() was true).
MainReturns ==
    /\ pc' = IF prog = "app" THEN "rdl_reset" ELSE "exited"
    /\ exitCause' = IF prog = "app" THEN exitCause ELSE "reload"

\* run_display_loop (or run_display.py) calls main, which starts with
\* display_message("Starting up Photo Frame...").
FrameMainStart ==
    /\ prog \in FramePrograms
    /\ pc \in {"rdl_start", "rd_start"}
    /\ pc' = "m_startup"
    /\ disp' = [what |-> "startup", step |-> "init", calling |-> FALSE]
    /\ UNCHANGED <<prog, NotFrameVars, panelVars, tickVars, jctx, jobs, jobsLeft,
                   exitCause, cfgVars, webVars>>

\* The display thread calls the Panel Driver.
PanelCallBegin ==
    /\ prog \in FramePrograms
    /\ pc \in DisplayPcs
    /\ disp.step \in PanelOps
    /\ ~disp.calling
    /\ disp' = [disp EXCEPT !.calling = TRUE]
    /\ inFlight' = inFlight + 1
    /\ tickOps' = IF pc = "j_show" THEN tickOps \cup {disp.step} ELSE tickOps
    /\ tickShown' = IF pc = "j_show" /\ disp.step = "display"
                    THEN Append(tickShown, disp.what) ELSE tickShown
    /\ UNCHANGED <<prog, NotFrameVars, shown, epdState, tickFetch, tickErrors, pc, jctx,
                   jobs, jobsLeft, exitCause, cfgVars, webVars>>

\* The end of display_image / display_message: after epd.sleep() or in its except.
DisplayEnds ==
    /\ disp' = NoDisp
    /\ pc' = AfterDisplay

\* The Panel Driver call returns.
PanelCallReturn ==
    /\ prog \in FramePrograms
    /\ pc \in DisplayPcs
    /\ disp.calling
    /\ inFlight' = inFlight - 1
    /\ shown' = ShownAfter(disp.step, disp.what)
    /\ epdState' = EpdAfter(disp.step)
    /\ IF StepAfter(disp.step) = "end"
       THEN DisplayEnds
       ELSE /\ disp' = [disp EXCEPT !.step = StepAfter(disp.step), !.calling = FALSE]
            /\ pc' = pc
    /\ UNCHANGED <<prog, NotFrameVars, tickVars, jctx, jobs, jobsLeft, exitCause,
                   cfgVars, webVars>>

\* display_image / display_message without their try ... except
PanelCallRaiseUncaught ==
    /\ prog \in FramePrograms
    /\ pc \in DisplayPcs
    /\ disp.calling
    /\ inFlight' = inFlight - 1
    /\ disp' = NoDisp
    /\ Uncaught
    /\ tickErrors' = IF pc = "j_show" THEN tickErrors \cup {"panel"} ELSE tickErrors
    /\ UNCHANGED <<prog, NotFrameVars, shown, epdState, tickFetch, tickOps, tickShown,
                   jctx, jobs, jobsLeft, cfgVars, webVars>>

\* The Panel Driver call raises: "except Exception" logs and the function returns.
PanelCallRaise ==
    /\ prog \in FramePrograms
    /\ pc \in DisplayPcs
    /\ disp.calling
    /\ inFlight' = inFlight - 1
    /\ DisplayEnds
    /\ tickErrors' = IF pc = "j_show" THEN tickErrors \cup {"panel"} ELSE tickErrors
    /\ UNCHANGED <<prog, NotFrameVars, shown, epdState, tickFetch, tickOps, tickShown,
                   jctx, jobs, jobsLeft, exitCause, cfgVars, webVars>>

\* Between epd.Clear() and epd.display(): the image is decoded and composed.
ComposeImage ==
    /\ prog \in FramePrograms
    /\ pc \in DisplayPcs
    /\ disp.step = "compose"
    /\ disp' = [disp EXCEPT !.step = StepAfter("compose")]
    /\ UNCHANGED <<prog, NotFrameVars, panelVars, tickVars, pc, jctx, jobs, jobsLeft,
                   exitCause, cfgVars, webVars>>

\* Image.open / convert / paste raise on the fetched bytes: caught, the function returns.
ComposeRaise ==
    /\ prog \in FramePrograms
    /\ pc \in DisplayPcs
    /\ disp.step = "compose"
    /\ disp.what = "photo"
    /\ DisplayEnds
    /\ tickErrors' = tickErrors \cup {"compose"}
    /\ UNCHANGED <<prog, NotFrameVars, panelVars, tickFetch, tickOps, tickShown, jctx,
                   jobs, jobsLeft, exitCause, cfgVars, webVars>>

\* load_dotenv(override=True) at the start of main.
FrameLoad ==
    /\ prog \in FramePrograms
    /\ pc = "m_load"
    /\ osEnv' = envFile
    /\ pc' = "m_auth"
    /\ UNCHANGED <<prog, NotFrameVars, panelVars, tickVars, disp, jctx, jobs, jobsLeft,
                   exitCause, envFile, cycleCfg, credsOK, webVars>>

\* GooglePhotosService() reads os.environ; authenticate() succeeds or not. On
\* success main goes on to the first update_photo_job(), otherwise to
\* display_message("Authentication Failed...").
FrameAuth ==
    /\ prog \in FramePrograms
    /\ pc = "m_auth"
    /\ cycleCfg' = osEnv
    /\ IF credsOK
       THEN pc' = "j_get" /\ jctx' = "first" /\ disp' = disp
       ELSE pc' = "m_authmsg" /\ jctx' = jctx
            /\ disp' = [what |-> "auth_error", step |-> "init", calling |-> FALSE]
    /\ UNCHANGED <<prog, NotFrameVars, panelVars, tickVars, jobs, jobsLeft, exitCause,
                   envFile, osEnv, credsOK, webVars>>

\* "while not reload_check():" after the authentication failure.
FrameIdleCheck ==
    /\ prog \in FramePrograms
    /\ pc = "m_idle_check"
    /\ IF ReloadCheck THEN MainReturns ELSE pc' = "m_idle_sleep" /\ exitCause' = exitCause
    /\ UNCHANGED <<prog, NotFrameVars, panelVars, tickVars, disp, jctx, jobs, jobsLeft,
                   cfgVars, webVars>>

\* time.sleep(5) of that loop.
FrameIdleSleep ==
    /\ prog \in FramePrograms
    /\ pc = "m_idle_sleep"
    /\ pc' = "m_idle_check"
    /\ UNCHANGED <<prog, NotFrameVars, panelVars, tickVars, disp, jctx, jobs, jobsLeft,
                   exitCause, cfgVars, webVars>>

\* What photos_service.get_photo() can do for update_photo_job: return image
\* data and info, return nothing, or raise. GooglePhotosService as it stands
\* defines no get_photo, so with it the call raises (AttributeError).
PhotoFetches == {"photo", "none", "raise"}

\* What update_photo_job puts on the panel for a returned fetch.
JobShows(o) == IF o = "photo" THEN "photo" ELSE "fetch_error"

\* update_photo_job up to its call of display_image / display_message. Nothing
\* around the call catches what get_photo raises.
FrameGetPhoto ==
    /\ prog \in FramePrograms
    /\ pc = "j_get"
    /\ \E o \in PhotoFetches :
          /\ tickFetch' = IF o = "photo" THEN "ok" ELSE "failed"
          /\ IF o = "raise"
             THEN Uncaught /\ disp' = disp
             ELSE /\ pc' = "j_show"
                  /\ disp' = [what |-> JobShows(o), step |-> "init", calling |-> FALSE]
                  /\ exitCause' = exitCause
    /\ tickOps' = {}
    /\ tickShown' = <<>>
    /\ tickErrors' = {}
    /\ UNCHANGED <<prog, NotFrameVars, panelVars, jctx, jobs, jobsLeft, cfgVars,
                   webVars>>

\* schedule.every(update_interval).minutes.do(update_photo_job)
FrameSchedule ==
    /\ prog \in FramePrograms
    /\ pc = "m_sched"
    /\ jobs' = jobs + 1
    /\ pc' = "m_loop_check"
    /\ UNCHANGED <<prog, NotFrameVars, panelVars, tickVars, disp, jctx, jobsLeft,
                   exitCause, cfgVars, webVars>>

\* "while not reload_check():" of the main loop; then schedule.run_pending().
FrameLoopCheck ==
    /\ prog \in FramePrograms
    /\ pc = "m_loop_check"
    /\ IF ReloadCheck
       THEN MainReturns /\ jobsLeft' = jobsLeft
       ELSE pc' = "m_pending" /\ jobsLeft' = jobs /\ exitCause' = exitCause
    /\ UNCHANGED <<prog, NotFrameVars, panelVars, tickVars, disp, jctx, jobs, cfgVars,
                   webVars>>

\* schedule.run_pending(): every registered job that is due runs.
FramePending ==
    /\ prog \in FramePrograms
    /\ pc = "m_pending"
    /\ IF jobsLeft = 0
       THEN pc' = "m_sleep" /\ UNCHANGED <<jobsLeft, jctx>>
       ELSE /\ jobsLeft' = jobsLeft - 1
            /\ \E due \in BOOLEAN :
                  IF due THEN pc' = "j_get" /\ jctx' = "sched"
                  ELSE pc' = pc /\ jctx' = jctx
    /\ UNCHANGED <<prog, NotFrameVars, panelVars, tickVars, disp, jobs, exitCause,
                   cfgVars, webVars>>

\* time.sleep(1) of the main loop.
FrameSleep ==
    /\ prog \in FramePrograms
    /\ pc = "m_sleep"
    /\ pc' = "m_loop_check"
    /\ UNCHANGED <<prog, NotFrameVars, panelVars, tickVars, disp, jctx, jobs, jobsLeft,
                   exitCause, cfgVars, webVars>>

\* run_display_loop after main returned: needs_reload = False
RdlReset ==
    /\ prog = "app"
    /\ pc = "rdl_reset"
    /\ needs_reload' = FALSE
    /\ pc' = "rdl_load"
    /\ UNCHANGED <<prog, NotFrameVars, panelVars, tickVars, disp, jctx, jobs, jobsLeft,
                   exitCause, cfgVars, hpc, htoken, posted, response>>

\* load_dotenv(override=True)
RdlLoad ==
    /\ prog = "app"
    /\ pc = "rdl_load"
    /\ osEnv' = envFile
    /\ pc' = "rdl_sleep"
    /\ UNCHANGED <<prog, NotFrameVars, panelVars, tickVars, disp, jctx, jobs, jobsLeft,
                   exitCause, envFile, cycleCfg, credsOK, webVars>>

\* time.sleep(5), then the next turn of "while True".
RdlSleep ==
    /\ prog = "app"
    /\ pc = "rdl_sleep"
    /\ pc' = "rdl_start"
    /\ UNCHANGED <<prog, NotFrameVars, panelVars, tickVars, disp, jctx, jobs, jobsLeft,
                   exitCause, cfgVars, webVars>>

\* ------------------------------------------------- app.py: POST /token
\* receive_token is entered with a shareToken in the request.
ReceiveToken ==
    /\ prog = "app"
    /\ hpc = "idle"
    /\ posted < MaxTokens
    /\ posted' = posted + 1
    /\ htoken' = posted + 1
    /\ hpc' = "write"
    /\ UNCHANGED <<prog, NotFrameVars, panelVars, tickVars, threadVars, cfgVars,
                   needs_reload, response>>

\* receive_token without a shareToken in the request: the 400 response.
ReceiveNoToken ==
    /\ prog = "app"
    /\ hpc = "idle"
    /\ response' = 400
    /\ UNCHANGED <<prog, NotFrameVars, panelVars, tickVars, threadVars, cfgVars,
                   needs_reload, hpc, htoken, posted>>

\* receive_token putting the token into os.environ as well as into .env
SaveTokenIntoEnviron ==
    /\ prog = "app"
    /\ hpc = "write"
    /\ \E ok \in BOOLEAN :
          IF ok THEN envFile' = htoken /\ osEnv' = htoken /\ hpc' = "flag"
                     /\ response' = response
          ELSE envFile' = envFile /\ osEnv' = osEnv /\ hpc' = "idle" /\ response' = 500
    /\ UNCHANGED <<prog, NotFrameVars, panelVars, tickVars, threadVars, cycleCfg,
                   credsOK, needs_reload, htoken, posted>>

\* receive_token setting needs_reload before it writes the token
SaveTokenAfterFlag ==
    /\ prog = "app"
    /\ hpc = "write"
    /\ needs_reload' = TRUE
    /\ \E ok \in BOOLEAN :
          IF ok THEN envFile' = htoken /\ hpc' = "flag" /\ response' = response
          ELSE envFile' = envFile /\ hpc' = "idle" /\ response' = 500
    /\ UNCHANGED <<prog, NotFrameVars, panelVars, tickVars, threadVars, osEnv,
                   cycleCfg, credsOK, htoken, posted>>

\* set_key(dotenv_path, 'GOOGLE_PHOTOS_SHARE_TOKEN', token), or its failure (500).
SaveToken ==
    /\ prog = "app"
    /\ hpc = "write"
    /\ \E ok \in BOOLEAN :
          IF ok THEN envFile' = htoken /\ hpc' = "flag" /\ response' = response
          ELSE envFile' = envFile /\ hpc' = "idle" /\ response' = 500
    /\ UNCHANGED <<prog, NotFrameVars, panelVars, tickVars, threadVars, osEnv,
                   cycleCfg, credsOK, needs_reload, htoken, posted>>

\* receive_token announcing the new album on the panel from the request thread
SignalReloadPainting ==
    /\ prog = "app"
    /\ hpc = "flag"
    /\ needs_reload' = TRUE
    /\ hpc' = "idle"
    /\ response' = 200
    /\ inFlight' = inFlight + 1
    /\ UNCHANGED <<prog, NotFrameVars, shown, epdState, tickVars, threadVars, cfgVars,
                   htoken, posted>>

\* needs_reload = True, and the 200 response.
SignalReload ==
    /\ prog = "app"
    /\ hpc = "flag"
    /\ needs_reload' = TRUE
    /\ hpc' = "idle"
    /\ response' = 200
    /\ UNCHANGED <<prog, NotFrameVars, panelVars, tickVars, threadVars, cfgVars,
                   htoken, posted>>

\* --------------------------------------------------------- environment
\* The credentials (token.json, credentials.json) are repaired from outside.
FixCredentials ==
    /\ prog \in FramePrograms \cup {"pds"}
    /\ ~credsOK
    /\ credsOK' = TRUE
    /\ UNCHANGED <<prog, NotFrameVars, panelVars, tickVars, threadVars, envFile, osEnv,
                   cycleCfg, webVars>>

\* The credentials expire or are removed.
BreakCredentials ==
    /\ prog \in FramePrograms \cup {"pds"}
    /\ credsOK
    /\ credsOK' = FALSE
    /\ UNCHANGED <<prog, NotFrameVars, panelVars, tickVars, threadVars, envFile, osEnv,
                   cycleCfg, webVars>>

\* ------------------------------------------------ PhotoDisplayService
\* What self.photos_service.get_next_photo() gives update_display: a photo of
\* the cache, None (no photo available) or an IndexError (see NextPhotoResult).
PdsNextPhotos ==
    {[kind |-> "photo", id |-> p] : p \in Photos} \cup
    {[kind |-> "None", id |-> 0], [kind |-> "IndexError", id |-> 0]}

\* should_update_photo() or not self.current_photo_info
ShouldUpdatePhoto ==
    \/ last_photo_update = None
    \/ now - last_photo_update >= rotation_interval
    \/ current_photo_info = None

\* An epd.display(...) of update_display: the history of the tick.
PdsDisplays(w) ==
    /\ tickOps' = tickOps \cup {"display"}
    /\ tickShown' = Append(tickShown, w)

\* update_display returns: to run (the first call) or to schedule.run_pending.
PdsTickEnds == pc' = IF jctx = "first" THEN "p_loop" ELSE "p_sleep"

\* Where update_display goes after the error screen of a failed fetch: it returns.
PdsAfterFetchError == "u_return"

\* run: init_display(), outside any try. A Panel Driver error ends the process.
PdsInitDisplay ==
    /\ prog = "pds"
    /\ pc = "p_start"
    /\ \E ok \in BOOLEAN :
          IF ok
          THEN /\ pc' = "p_auth" /\ shown' = "blank" /\ epdState' = "awake"
               /\ exitCause' = exitCause
          ELSE /\ pc' = "crashed" /\ exitCause' = "startup"
               /\ UNCHANGED <<shown, epdState>>
    /\ UNCHANGED <<prog, interrupted, NotPdsVars, now, tickVars, jctx, jobs, pdsVars>>

\* run: authenticate(); on failure the error screen, then "return"; on success
\* schedule.every(rotation_interval).minutes.do(update_display) and the first
\* update_display().
PdsAuthenticate ==
    /\ prog = "pds"
    /\ pc = "p_auth"
    /\ IF credsOK
       THEN /\ next_run' = now + rotation_interval
            /\ jobs' = jobs + 1
            /\ pc' = "u_start" /\ jctx' = "first"
            /\ UNCHANGED <<shown, exitCause>>
       ELSE /\ \E ok \in BOOLEAN :
                  IF ok
                  THEN pc' = "returned" /\ exitCause' = "auth" /\ shown' = "error"
                  ELSE pc' = "crashed" /\ exitCause' = "startup" /\ shown' = shown
            /\ UNCHANGED <<next_run, jobs, jctx>>
    /\ UNCHANGED <<prog, interrupted, NotPdsVars, now, epdState, tickVars, last_photo_update,
                   current_photo_info, pds_update_count, rotation_interval,
                   fetchedPhoto>>

\* update_display: the test of should_update_photo().
PdsUpdateStart ==
    /\ prog = "pds"
    /\ pc = "u_start"
    /\ pc' = IF ShouldUpdatePhoto THEN "u_loading" ELSE "u_draw"
    /\ tickFetch' = "idle" /\ tickOps' = {} /\ tickShown' = <<>> /\ tickErrors' = {}
    /\ UNCHANGED <<prog, interrupted, NotPdsVars, now, panelVars, jctx, jobs, exitCause, pdsVars>>

\* self.epd.display(loading_image)
PdsLoading ==
    /\ prog = "pds"
    /\ pc = "u_loading"
    /\ PdsDisplays("loading")
    /\ \E ok \in BOOLEAN :
          IF ok THEN pc' = "u_get" /\ shown' = "loading" /\ tickErrors' = tickErrors
          ELSE pc' = "u_except" /\ shown' = shown /\ tickErrors' = tickErrors \cup {"panel"}
    /\ UNCHANGED <<prog, interrupted, NotPdsVars, now, epdState, tickFetch, jctx, jobs, exitCause,
                   pdsVars>>

\* photo_info = self.photos_service.get_next_photo()
PdsGetNext ==
    /\ prog = "pds"
    /\ pc = "u_get"
    /\ \E r \in PdsNextPhotos :
          /\ pc' = CASE r.kind = "photo" -> "u_download"
                     [] r.kind = "None" -> "u_err"
                     [] OTHER -> "u_except"
          /\ tickFetch' = IF r.kind = "photo" THEN tickFetch ELSE "failed"
          /\ fetchedPhoto' = r.id
    /\ UNCHANGED <<prog, interrupted, NotPdsVars, now, panelVars, tickOps, tickShown, tickErrors, jctx,
                   jobs, exitCause, last_photo_update, current_photo_info, pds_update_count,
                   rotation_interval, next_run>>

\* update_display stamping last_photo_update before the download
PdsDownloadStampsFirst ==
    /\ prog = "pds"
    /\ pc = "u_download"
    /\ last_photo_update' = now
    /\ \E ok \in BOOLEAN :
          IF ok
          THEN /\ current_photo_info' = fetchedPhoto
               /\ tickFetch' = "ok"
               /\ pc' = "u_draw"
          ELSE /\ tickFetch' = "failed"
               /\ pc' = "u_err"
               /\ UNCHANGED current_photo_info
    /\ UNCHANGED <<prog, interrupted, NotPdsVars, now, panelVars, tickOps, tickShown, tickErrors, jctx,
                   jobs, exitCause, pds_update_count, rotation_interval, next_run,
                   fetchedPhoto>>

\* download_photo and process_image_for_eink: an image each, or None. With both
\* the photo becomes the current one.
PdsDownload ==
    /\ prog = "pds"
    /\ pc = "u_download"
    /\ \E ok \in BOOLEAN :
          IF ok
          THEN /\ current_photo_info' = fetchedPhoto
               /\ last_photo_update' = now
               /\ tickFetch' = "ok"
               /\ pc' = "u_draw"
          ELSE /\ tickFetch' = "failed"
               /\ pc' = "u_err"
               /\ UNCHANGED <<current_photo_info, last_photo_update>>
    /\ UNCHANGED <<prog, interrupted, NotPdsVars, now, panelVars, tickOps, tickShown, tickErrors, jctx,
                   jobs, exitCause, pds_update_count, rotation_interval, next_run,
                   fetchedPhoto>>

\* The error screen of a failed fetch, then "return".
PdsFetchError ==
    /\ prog = "pds"
    /\ pc = "u_err"
    /\ PdsDisplays("error")
    /\ \E ok \in BOOLEAN :
          IF ok THEN pc' = PdsAfterFetchError /\ shown' = "error" /\ tickErrors' = tickErrors
          ELSE pc' = "u_except" /\ shown' = shown /\ tickErrors' = tickErrors \cup {"panel"}
    /\ UNCHANGED <<prog, interrupted, NotPdsVars, now, epdState, tickFetch, jctx, jobs, exitCause,
                   pdsVars>>

\* draw_photo_with_info (the photo, or its own error screen when composing
\* fails) and self.epd.display of it.
PdsDraw ==
    /\ prog = "pds"
    /\ pc = "u_draw"
    /\ \E composed \in {"photo", "error"} :
          /\ PdsDisplays(composed)
          /\ \E ok \in BOOLEAN :
                /\ tickErrors' = tickErrors
                                  \cup (IF composed = "error" THEN {"compose"} ELSE {})
                                  \cup (IF ok THEN {} ELSE {"panel"})
                /\ IF ok
                   THEN /\ shown' = composed
                        /\ pds_update_count' = pds_update_count + 1
                        /\ pc' = "u_return"
                   ELSE /\ pc' = "u_except"
                        /\ UNCHANGED <<shown, pds_update_count>>
    /\ UNCHANGED <<prog, interrupted, NotPdsVars, now, epdState, tickFetch, jctx, jobs, exitCause,
                   last_photo_update, current_photo_info, rotation_interval, next_run,
                   fetchedPhoto>>

\* "except Exception": the error screen is tried once more; a failure is logged.
PdsExcept ==
    /\ prog = "pds"
    /\ pc = "u_except"
    /\ PdsDisplays("error")
    /\ \E ok \in BOOLEAN :
          /\ shown' = IF ok THEN "error" ELSE shown
          /\ tickErrors' = IF ok THEN tickErrors ELSE tickErrors \cup {"panel"}
    /\ pc' = "u_return"
    /\ UNCHANGED <<prog, interrupted, NotPdsVars, now, epdState, tickFetch, jctx, jobs, exitCause,
                   pdsVars>>

PdsUpdateReturn ==
    /\ prog = "pds"
    /\ pc = "u_return"
    /\ PdsTickEnds
    /\ UNCHANGED <<prog, interrupted, NotPdsVars, now, panelVars, tickVars, jctx, jobs, exitCause,
                   pdsVars>>

\* schedule.run_pending() in the loop of run.
PdsRunPending ==
    /\ prog = "pds"
    /\ pc = "p_loop"
    /\ IF now >= next_run
       THEN pc' = "u_start" /\ jctx' = "sched" /\ next_run' = now + rotation_interval
       ELSE pc' = "p_sleep" /\ UNCHANGED <<jctx, next_run>>
    /\ UNCHANGED <<prog, interrupted, NotPdsVars, now, panelVars, tickVars, jobs, exitCause,
                   last_photo_update, current_photo_info, pds_update_count,
                   rotation_interval, fetchedPhoto>>

\* time.sleep(60)
PdsSleep ==
    /\ prog = "pds"
    /\ pc = "p_sleep"
    /\ now < MaxTime
    /\ now' = now + 1
    /\ pc' = "p_loop"
    /\ UNCHANGED <<prog, interrupted, NotPdsVars, panelVars, tickVars, jctx, jobs, exitCause,
                   pdsVars>>

\* KeyboardInterrupt inside the try of run: the finally runs epdconfig.module_exit().
PdsInterrupt ==
    /\ prog = "pds"
    /\ \/ pc \in {"p_loop", "p_sleep"}
       \/ pc \in {"u_start", "u_loading", "u_get", "u_download", "u_err", "u_draw",
                  "u_return"} /\ jctx = "sched"
    /\ pc' = "returned"
    /\ exitCause' = "interrupt"
    /\ interrupted' = TRUE
    /\ epdState' = "released"
    /\ UNCHANGED <<prog, NotPdsVars, now, shown, tickVars, jctx, jobs, pdsVars>>

\* KeyboardInterrupt while the "except Exception" handler of update_display tries
\* its error screen: the bare "except:" around it takes the interrupt, logs
\* "Failed to display error message", and update_display returns as usual.
PdsInterruptSwallowed ==
    /\ prog = "pds"
    /\ pc = "u_except"
    /\ pc' = "u_return"
    /\ interrupted' = (interrupted \/ jctx = "sched")
    /\ UNCHANGED <<prog, NotPdsVars, now, panelVars, tickVars, jctx, jobs, exitCause,
                   pdsVars>>

\* KeyboardInterrupt in the first update_display(), which run calls before its
\* try: nothing handles it, the process ends without module_exit().
PdsInterruptEarly ==
    /\ prog = "pds"
    /\ pc \in {"u_start", "u_loading", "u_get", "u_download", "u_err", "u_draw",
               "u_return"}
    /\ jctx = "first"
    /\ pc' = "crashed"
    /\ exitCause' = "interrupt"
    /\ UNCHANGED <<prog, interrupted, NotPdsVars, now, panelVars, tickVars, jctx, jobs,
                   pdsVars>>

\* ------------------------------------------------------------ EInkDisplay
\* What Home Assistant answers for the six sensors: the values update_display
\* extracts. "N/A" and the default units stand for a request that failed.
Snapshots ==
    {[temp |-> "20", temp_unit |-> "C", humidity |-> "50", wind_speed |-> "5",
      wind_gust |-> g, wind_unit |-> "mph", daily_rain |-> "0", rain_unit |-> "in",
      feels_like |-> "19"] : g \in {"7", "9"}} \cup
    {[temp |-> "N/A", temp_unit |-> "C", humidity |-> "N/A", wind_speed |-> "N/A",
      wind_gust |-> "N/A", wind_unit |-> "mph", daily_rain |-> "N/A",
      rain_unit |-> "in", feels_like |-> "N/A"]}

\* No readings: nothing was drawn yet.
NoSnapshot ==
    [temp |-> "unset", temp_unit |-> "unset", humidity |-> "unset",
     wind_speed |-> "unset", wind_gust |-> "unset", wind_unit |-> "unset",
     daily_rain |-> "unset", rain_unit |-> "unset", feels_like |-> "unset"]

\* The values reported throughout a run with steady weather.
SteadyWeather == CHOOSE w \in Snapshots : w.temp # "N/A"

\* The comparison made on content_string (time_str and date_str included)
\* instead of weather_string
WeatherHashWithTime(s) ==
    <<minute, <<s.temp, s.temp_unit>>, s.humidity, s.wind_speed, s.daily_rain,
      s.feels_like>>

\* weather_string, of which weather_hash is the md5: temp_line, humidity,
\* wind_speed, daily_rain and feels_like.
WeatherHash(s) ==
    <<<<s.temp, s.temp_unit>>, s.humidity, s.wind_speed, s.daily_rain, s.feels_like>>

\* What update_display draws of the readings s: temp_line, feels_line, the
\* humidity, wind_display (with the gust when there is one other than the
\* speed) and the rain with its unit.
Drawn(s) ==
    <<<<s.temp, s.temp_unit>>,
      IF s.feels_like # "N/A" THEN <<s.feels_like, s.temp_unit>> ELSE <<s.temp, s.temp_unit>>,
      s.humidity,
      IF s.wind_gust # "N/A" /\ s.wind_gust # s.wind_speed
      THEN <<s.wind_speed, s.wind_gust, s.wind_unit>>
      ELSE <<s.wind_speed, s.wind_unit>>,
      <<s.daily_rain, s.rain_unit>>>>

\* "Force full update every 20th update"
ForcedRepaintPeriod == 20
\* schedule.every(5).minutes
WeatherPeriod == 5
\* "Force full refresh after 8 partial updates"
PartialLimit == 8
\* the minutes of the clock, as far as they are told apart
Minutes == 2

\* Whether the run is followed through one more minute.
Followed == steady \/ ticks < MaxTicks

\* ticks after one more update_display tick
TicksAfter == IF ticks < MaxTicks THEN ticks + 1 ELSE ticks

\* "weather_changed = self.last_weather_hash is None"
WeatherChangedFirstOnly == last_weather_hash = <<>>

WeatherChanged == last_weather_hash # WeatherHash(weather)
ForceFullUpdate == update_count % ForcedRepaintPeriod = 0

\* update_display on the EInkDisplay fields. o is what happens in it: "ok",
\* "render_error" (an exception before epd.display) or "panel_error" (epd.display
\* raises); both are caught by its "except Exception".
UpdateOutcomes == {"ok", "render_error", "panel_error"}

\* update_display calls epd.display
Paints(o) == o # "render_error" /\ (WeatherChanged \/ ForceFullUpdate)

\* ... and the call returns
Repaints(o) == o = "ok" /\ (WeatherChanged \/ ForceFullUpdate)

\* update_display takes the "Weather unchanged, skipping" branch
Skips(o) == o # "render_error" /\ ~(WeatherChanged \/ ForceFullUpdate)

\* update_count incremented before epd.display is called
UpdateDisplayCountsFirst(o) ==
    /\ last_weather_hash' = IF Repaints(o) THEN WeatherHash(weather) ELSE last_weather_hash
    /\ painted' = IF Repaints(o) THEN weather ELSE painted
    /\ update_count' = IF Paints(o) THEN update_count + 1 ELSE update_count
    /\ shown' = IF Repaints(o) THEN "weather" ELSE shown
    /\ skips' = IF Repaints(o) THEN 0
                ELSE IF Skips(o) /\ skips <= ForcedRepaintPeriod THEN skips + 1
                ELSE skips

UpdateDisplay(o) ==
    /\ last_weather_hash' = IF Repaints(o) THEN WeatherHash(weather) ELSE last_weather_hash
    /\ painted' = IF Repaints(o) THEN weather ELSE painted
    /\ update_count' = IF Repaints(o) THEN update_count + 1 ELSE update_count
    /\ shown' = IF Repaints(o) THEN "weather" ELSE shown
    /\ skips' = IF Repaints(o) THEN 0
                ELSE IF Skips(o) /\ skips <= ForcedRepaintPeriod THEN skips + 1
                ELSE skips

\* What raised in update_display: the drawing, or epd.display when it is called.
UpdateErrors(o) ==
    IF o = "render_error" THEN {"compose"}
    ELSE IF o = "panel_error" /\ Paints(o) THEN {"panel"}
    ELSE {}

\* The history of a tick that is one update_display.
UpdateTick(o) ==
    /\ tickOps' = IF Paints(o) THEN {"display"} ELSE {}
    /\ tickShown' = IF Paints(o) THEN <<"weather">> ELSE <<>>
    /\ tickErrors' = UpdateErrors(o)
    /\ tickFetch' = IF weather.temp = "N/A" THEN "failed" ELSE "ok"

\* The history of what the panel shows after update_display; timeDone says
\* whether a partial update drew the time just before it.
PanelHistory(o, timeDone) ==
    timeStale' = IF Repaints(o) \/ timeDone THEN FALSE ELSE timeStale

\* run: init_display(), outside the try; then the job is scheduled.
EinkInitDisplay ==
    /\ prog = "eink"
    /\ pc = "e_start"
    /\ \E ok \in BOOLEAN :
          IF ok
          THEN /\ pc' = "e_first" /\ shown' = "blank" /\ epdState' = "awake"
               /\ exitCause' = exitCause
          ELSE /\ pc' = "crashed" /\ exitCause' = "startup"
               /\ UNCHANGED <<shown, epdState>>
    /\ jobs' = jobs + 1
    /\ UNCHANGED <<prog, interrupted, NotEinkVars, tickVars, einkVars>>

\* run: the initial self.update_display()
EinkFirstUpdate ==
    /\ prog = "eink"
    /\ pc = "e_first"
    /\ \E o \in UpdateOutcomes :
          /\ UpdateDisplay(o)
          /\ UpdateTick(o)
          /\ PanelHistory(o, FALSE)
          /\ last_minute' = IF Repaints(o) THEN minute ELSE last_minute
    /\ ticks' = TicksAfter
    /\ pc' = "e_loop"
    /\ UNCHANGED <<prog, interrupted, NotEinkVars, epdState, jobs, exitCause, partial_update_count,
                   last_minute_check, weather, minute, sinceMain, hasPartial, steady>>

\* schedule.run_pending(): update_display when five minutes have passed.
EinkRunPending ==
    /\ prog = "eink"
    /\ pc = "e_loop"
    /\ IF sinceMain >= WeatherPeriod
       THEN /\ \E o \in UpdateOutcomes :
                  /\ UpdateDisplay(o)
                  /\ UpdateTick(o)
                  /\ PanelHistory(o, FALSE)
                  /\ last_minute' = IF Repaints(o) THEN minute ELSE last_minute
            /\ sinceMain' = 0
            /\ ticks' = TicksAfter
       ELSE UNCHANGED <<shown, tickVars, update_count, last_weather_hash, painted, last_minute,
                        skips, timeStale, sinceMain, ticks>>
    /\ pc' = "e_minute"
    /\ UNCHANGED <<prog, interrupted, NotEinkVars, epdState, jobs, exitCause, partial_update_count,
                   last_minute_check, weather, minute, hasPartial, steady>>

\* partial_update_count after one more partial update
PartialAfter ==
    IF partial_update_count + 1 >= PartialLimit THEN 0 ELSE partial_update_count + 1

\* update_time_only, entered with a minute other than last_minute. p says
\* whether the partial update (SetWindow ... TurnOnDisplay) succeeds; o is what
\* happens in the update_display called after PartialLimit partial updates.
UpdateTimeOnly(p, o) ==
    /\ last_minute' = minute
    /\ tickFetch' = tickFetch
    /\ IF hasPartial /\ p
       THEN /\ partial_update_count' = PartialAfter
            /\ IF PartialAfter = 0
               THEN /\ UpdateDisplay(o)
                    /\ PanelHistory(o, TRUE)
                    /\ tickOps' = {"partial"} \cup (IF Paints(o) THEN {"display"} ELSE {})
                    /\ tickShown' = <<"time">> \o (IF Paints(o) THEN <<"weather">> ELSE <<>>)
                    /\ tickErrors' = UpdateErrors(o)
               ELSE /\ tickOps' = {"partial"}
                    /\ tickShown' = <<"time">>
                    /\ tickErrors' = {}
                    /\ shown' = "time"
                    /\ timeStale' = FALSE
                    /\ UNCHANGED <<update_count, last_weather_hash, painted, skips>>
       ELSE /\ tickOps' = IF hasPartial THEN {"partial"} ELSE {}
            /\ tickShown' = <<>>
            /\ tickErrors' = IF hasPartial THEN {"panel"} ELSE {}
            /\ UNCHANGED <<shown, update_count, last_weather_hash, painted, skips,
                           timeStale, partial_update_count>>

\* run: the minute check, with update_time_only when the minute is a new one.
EinkMinuteCheck ==
    /\ prog = "eink"
    /\ pc = "e_minute"
    /\ IF last_minute_check # minute /\ last_minute # minute
       THEN \E p \in BOOLEAN, o \in UpdateOutcomes : UpdateTimeOnly(p, o)
       ELSE UNCHANGED <<shown, tickVars, update_count, last_weather_hash, painted, last_minute,
                        skips, timeStale, partial_update_count>>
    /\ last_minute_check' = minute
    /\ pc' = "e_sleep"
    /\ UNCHANGED <<prog, interrupted, NotEinkVars, epdState, jobs, exitCause, weather, minute,
                   sinceMain, hasPartial, steady, ticks>>

\* time.sleep(10); the next minute may begin meanwhile.
EinkSleep ==
    /\ prog = "eink"
    /\ pc = "e_sleep"
    /\ pc' = "e_loop"
    /\ \E passes \in BOOLEAN :
          IF passes /\ Followed
          THEN /\ minute' = (minute + 1) % Minutes
               /\ sinceMain' = IF sinceMain >= WeatherPeriod THEN sinceMain
                                ELSE sinceMain + 1
               /\ timeStale' = TRUE
          ELSE UNCHANGED <<minute, sinceMain, timeStale>>
    /\ UNCHANGED <<prog, interrupted, NotEinkVars, panelVars, tickVars, jobs, exitCause, update_count,
                   last_weather_hash, painted, last_minute, partial_update_count,
                   last_minute_check, weather, hasPartial, steady, ticks, skips>>

\* KeyboardInterrupt inside the try of run: the finally runs epdconfig.module_exit().
EinkInterrupt ==
    /\ prog = "eink"
    /\ pc \in {"e_loop", "e_minute", "e_sleep"}
    /\ pc' = "returned"
    /\ exitCause' = "interrupt"
    /\ interrupted' = TRUE
    /\ epdState' = "released"
    /\ UNCHANGED <<prog, NotEinkVars, shown, inFlight, tickVars, jobs, einkVars>>

\* KeyboardInterrupt in the first update_display(), which run calls before its
\* try: the process ends without module_exit().
EinkInterruptEarly ==
    /\ prog = "eink"
    /\ pc = "e_first"
    /\ pc' = "crashed"
    /\ exitCause' = "interrupt"
    /\ UNCHANGED <<prog, interrupted, NotEinkVars, panelVars, tickVars, jobs, einkVars>>

\* The sensors report other values, or stop answering.
WeatherChanges ==
    /\ prog = "eink"
    /\ ~steady
    /\ pc \in {"e_first", "e_loop", "e_minute", "e_sleep"}
    /\ \E w \in Snapshots \ {weather} : weather' = w
    /\ UNCHANGED <<prog, interrupted, NotEinkVars, panelVars, tickVars, pc, jobs, exitCause,
                   update_count, last_weather_hash, painted, last_minute, partial_update_count,
                   last_minute_check, minute, sinceMain, hasPartial, steady, ticks,
                   skips, timeStale>>


\* ---------------------------------------------------------- specification
Programs == {"cache", "app", "run_display", "pds", "eink"}

\* The state after construction; st says whether the weather stays as it is.
Start(st) ==
    /\ prog \in Programs
    /\ now = 0
    /\ InitCacheFields
    /\ callLog = <<>>
    /\ shown = "unknown" /\ inFlight = 0 /\ epdState = "off"
    /\ tickFetch = "idle" /\ tickOps = {} /\ tickShown = <<>> /\ tickErrors = {}
    /\ pc = CASE prog = "app" -> "rdl_start"
              [] prog = "run_display" -> "rd_start"
              [] prog = "pds" -> "p_start"
              [] prog = "eink" -> "e_start"
              [] OTHER -> "none"
    /\ disp = NoDisp /\ jctx = "none" /\ jobs = 0 /\ jobsLeft = 0
    /\ exitCause = "none" /\ interrupted = FALSE
    /\ envFile = 0 /\ osEnv = 0 /\ cycleCfg = None
    /\ credsOK \in (IF prog \in FramePrograms \cup {"pds"} THEN BOOLEAN ELSE {TRUE})
    /\ needs_reload = FALSE /\ hpc = "idle" /\ htoken = 0 /\ posted = 0 /\ response = 0
    /\ last_photo_update = None /\ current_photo_info = None /\ pds_update_count = 0
    /\ rotation_interval \in (IF prog = "pds" THEN 1..MaxInterval ELSE {1})
    /\ next_run = None /\ fetchedPhoto = 0
    /\ update_count = 0 /\ last_weather_hash = <<>> /\ painted = NoSnapshot
    /\ last_minute = None
    /\ partial_update_count = 0 /\ last_minute_check = None
    /\ weather \in (IF prog = "eink" /\ ~st THEN Snapshots ELSE {SteadyWeather})
    /\ minute = 0 /\ sinceMain = 0
    /\ hasPartial \in (IF prog = "eink" THEN BOOLEAN ELSE {TRUE})
    /\ steady = st
    /\ ticks = 0 /\ skips = 0 /\ timeStale = FALSE

Init == Start(FALSE)

DisplayThread ==
    \/ FrameMainStart
    \/ PanelCallBegin
    \/ PanelCallReturn
    \/ PanelCallRaise
    \/ ComposeImage
    \/ ComposeRaise
    \/ FrameLoad
    \/ FrameAuth
    \/ FrameIdleCheck
    \/ FrameIdleSleep
    \/ FrameGetPhoto
    \/ FrameSchedule
    \/ FrameLoopCheck
    \/ FramePending
    \/ FrameSleep
    \/ RdlReset
    \/ RdlLoad
    \/ RdlSleep

PhotoService ==
    \/ PdsInitDisplay
    \/ PdsAuthenticate
    \/ PdsUpdateStart
    \/ PdsLoading
    \/ PdsGetNext
    \/ PdsDownload
    \/ PdsFetchError
    \/ PdsDraw
    \/ PdsExcept
    \/ PdsUpdateReturn
    \/ PdsRunPending
    \/ PdsSleep

WeatherDisplay ==
    \/ EinkInitDisplay
    \/ EinkFirstUpdate
    \/ EinkRunPending
    \/ EinkMinuteCheck
    \/ EinkSleep

RequestThread ==
    \/ ReceiveToken
    \/ ReceiveNoToken
    \/ SaveToken
    \/ SignalReload

Next ==
    \/ CallGetNextPhoto
    \/ ClockTick
    \/ DisplayThread
    \/ RequestThread
    \/ PhotoService
    \/ PdsInterrupt
    \/ PdsInterruptSwallowed
    \/ PdsInterruptEarly
    \/ WeatherDisplay
    \/ EinkInterrupt
    \/ EinkInterruptEarly
    \/ WeatherChanges
    \/ FixCredentials
    \/ BreakCredentials

Spec == Init /\ [][Next]_vars

\* GooglePhotosService alone, called at chosen times.
InitCache == Init /\ prog = "cache"
NextCache == CallGetNextPhoto \/ ClockTick
SpecCache == InitCache /\ [][NextCache]_vars

\* photo_display.main under app.py (with the /token handler) and run_display.py.
InitFrame == Init /\ prog \in FramePrograms
NextFrame == DisplayThread \/ RequestThread \/ FixCredentials \/ BreakCredentials
SpecFrame == InitFrame /\ [][NextFrame]_vars

\* PhotoDisplayService.run
InitPds == Init /\ prog = "pds"
NextPds == PhotoService \/ PdsInterrupt \/ PdsInterruptSwallowed \/ PdsInterruptEarly
SpecPds == InitPds /\ [][NextPds]_vars

\* Both photo frames.
InitPhoto == Init /\ prog \in FramePrograms \cup {"pds"}
NextPhoto == NextFrame \/ NextPds
SpecPhoto == InitPhoto /\ [][NextPhoto]_vars

\* EInkDisplay.run
InitEink == Init /\ prog = "eink"
NextEink == WeatherDisplay \/ EinkInterrupt \/ EinkInterruptEarly \/ WeatherChanges
SpecEink == InitEink /\ [][NextEink]_vars

\* EInkDisplay.run while the sensors keep reporting the same values.
InitSteady == Start(TRUE) /\ prog = "eink"
NextSteady == WeatherDisplay \/ EinkInterrupt \/ EinkInterruptEarly
SpecSteady == InitSteady /\ [][NextSteady]_vars

\* The threads of app.py and run_display.py keep running: the display thread
\* takes its next step, and a request handler that was entered finishes.
FairSpec == SpecFrame /\ WF_vars(DisplayThread) /\ WF_vars(SaveToken \/ SignalReload)

\* EInkDisplay.run keeps running while the weather stays as it is.
FairSteady == SpecSteady /\ WF_vars(WeatherDisplay)

\* ------------------------------------------------------------ properties
\* The places where a display loop has stopped.
Stopped == pc \in {"dead", "crashed", "returned", "exited"}

\* C1: in a tick whose content fetch failed no Panel Driver call (init, Clear,
\* display) is made.
C1_NoPanelCallOnFailedFetch == tickFetch = "failed" => tickOps = {}

\* C2: when a fetch of the photo list fails after an earlier fetch succeeded and
\* left photos in the cache, get_next_photo leaves photo_cache as it was and
\* returns a photo, never None.
C2_FallbackOnFailure ==
    \A j \in DOMAIN callLog :
        (/\ callLog[j].outcome = "fail"
         /\ callLog[j].hadPhotos
         /\ \E i \in 1..(j - 1) : callLog[i].outcome = "ok")
        => callLog[j].kept /\ callLog[j].ret = "photo"

\* C3 as stated: two get_next_photo calls less than cache_duration apart make
\* at most one fetch in total, whatever the first call's fetch gave.
C3_AtMostOneFetch ==
    \A i, j \in DOMAIN callLog :
        (i < j /\ callLog[j].t - callLog[i].t < cache_duration)
        => ~(callLog[i].fetched /\ callLog[j].fetched)

\* C3 as amended: two get_next_photo calls less than cache_duration apart make
\* at most one fetch in total when the first call leaves photos in the cache.
C3_AtMostOneFetchWithPhotos ==
    \A i, j \in DOMAIN callLog :
        (i < j /\ callLog[j].t - callLog[i].t < cache_duration /\ callLog[i].hasPhotos)
        => ~(callLog[i].fetched /\ callLog[j].fetched)

\* Two calls within cache_duration: the first fetched photos, the second, made
\* later, was served from the cache.
C3_Witness ==
    \E i, j \in DOMAIN callLog :
        /\ i < j
        /\ callLog[j].t > callLog[i].t
        /\ callLog[j].t - callLog[i].t < cache_duration
        /\ callLog[i].fetched /\ callLog[i].hasPhotos
        /\ ~callLog[j].fetched /\ callLog[j].ret = "photo"

\* C4: update_display never skips the repaint ForcedRepaintPeriod times in a
\* row: the ForcedRepaintPeriod-th tick with unchanged weather repaints.
C4_ForcedRepaint == skips < ForcedRepaintPeriod

\* C5: at most one Panel Driver call is in flight at any time.
C5_OnePanelCall == inFlight <= 1

\* A Panel Driver call of the display thread is in flight while receive_token
\* is between set_key and needs_reload = True.
C5_Witness == inFlight = 1 /\ hpc = "flag" /\ prog = "app"

\* C6: every share token saved by the /token handler is eventually the
\* configuration of a photo_display.main cycle that loaded it after the write.
C6_SavedTokenReloaded == \A t \in 1..MaxTokens : (envFile = t) ~> (cycleCfg >= t)

\* C7: no error raised during a tick stops a display loop: a loop stops only on
\* an interrupt, a reload request or a failure at startup.
C7_NoTickErrorStopsLoop == Stopped => exitCause # "error"

\* C8: after a tick whose fetch failed the scheduler is still in its loop (so
\* that the next tick fetches again).
C8_LoopSurvivesFailedFetch == tickFetch = "failed" => pc \notin {"dead", "crashed"}

\* C9: after an authentication failure at the start the run does not return:
\* it shows the error message and idles.
C9_AuthFailureIdles == exitCause = "auth" => ~Stopped

\* C10: photo_display.main started by run_display.py and idling after an
\* authentication failure, with the credentials repaired, eventually
\* authenticates (or the credentials break again).
C10_Reauthenticates ==
    (prog = "run_display" /\ pc \in {"m_idle_check", "m_idle_sleep"} /\ credsOK)
        ~> (pc = "j_get" \/ ~credsOK)

\* C11: once a KeyboardInterrupt was raised inside the loop of run, run has
\* returned and the panel is released (module_exit was the last panel action).
C11_InterruptReleasesPanel == interrupted => (pc = "returned" /\ epdState = "released")

\* C12: a run that ended after the panel was initialised left the panel asleep
\* or released.
C12_ExitLeavesPanelSafe ==
    (Stopped /\ epdState # "off") => epdState \in {"asleep", "released"}

\* C13: no tick hands more than one image to the panel's refresh.
C13_OneRefreshPerTick == Len(tickShown) <= 1

\* C14: when the fingerprint of the readings equals the stored one (so that
\* update_display skips), the readings draw the same as what was painted: any
\* difference in a drawn field changes the fingerprint.
C14_FingerprintCoversDrawnFields ==
    last_weather_hash = WeatherHash(weather) => Drawn(painted) = Drawn(weather)

\* C15: while the readings are those of the last full repaint (and the update
\* is not a forced one), no step makes a full repaint, whatever the time.
C15_TimeAloneNeverRepaints ==
    [][(painted = weather /\ update_count % ForcedRepaintPeriod # 0)
          => update_count' = update_count]_vars

\* update_display skipped the repaint of readings already on the panel, at a
\* later minute than that of the repaint.
C15_Witness == skips >= 1 /\ painted = weather /\ update_count = 1 /\ minute # 0

\* C16: a Panel Driver error raised during a tick does not stop the loop: a
\* loop that stopped after such a tick was interrupted.
C16_PanelErrorCaught == ("panel" \in tickErrors /\ Stopped) => exitCause = "interrupt"

\* A Panel Driver call raised in the last tick and the loop is waiting for the next.
C16_Witness == "panel" \in tickErrors /\ pc \in {"m_sleep", "p_sleep", "e_sleep"}

\* C17: a tick in which composing the image failed issued no Clear and handed
\* nothing to the panel's refresh.
C17_ComposeFailureKeepsImage ==
    "compose" \in tickErrors => ("Clear" \notin tickOps /\ tickShown = <<>>)

\* C18: while a cycle of photo_display.main runs, the environment is the one
\* its configuration was read from: a /token write does not change it.
C18_ConfigFixedWithinCycle == pc \in CyclePcs => osEnv = cycleCfg

\* A token was saved and signalled during a cycle that still runs on the
\* configuration read at its start.
C18_Witness == pc \in CyclePcs /\ envFile # osEnv /\ needs_reload /\ hpc = "idle"

\* C19: a repaint stores the new fingerprint and restarts the forced-repaint
\* counter (update_count) from zero; a skip increments the counter and leaves
\* the stored fingerprint as it is.
C19_RepaintBookkeeping ==
    [][/\ (shown' = "weather" /\ last_weather_hash' # last_weather_hash)
            => (last_weather_hash' = WeatherHash(weather) /\ update_count' = 0)
       /\ (skips' = skips + 1)
            => (update_count' = update_count + 1
                /\ last_weather_hash' = last_weather_hash)]_vars

\* C20: a call of update_display in which nothing raises repaints when the
\* fingerprint of the readings differs from the stored one (none is stored at
\* the first call); a call skips only when the two are equal.
C20_RepaintIffChanged ==
    [][/\ (/\ \/ pc = "e_first" /\ pc' = "e_loop"
              \/ pc = "e_loop" /\ pc' = "e_minute" /\ sinceMain >= WeatherPeriod
           /\ tickErrors' = {}
           /\ last_weather_hash # WeatherHash(weather))
            => (/\ update_count' = update_count + 1
                /\ shown' = "weather"
                /\ last_weather_hash' = WeatherHash(weather))
       /\ (skips' = skips + 1) => last_weather_hash = WeatherHash(weather)]_vars

\* Both cases happened: a repaint for changed readings after the first one,
\* then a skip.
C20_Witness == update_count >= 2 /\ skips >= 1 /\ shown = "weather"

\* C21: get_next_photo serves the cached list without a fetch exactly when a
\* list exists and its age is less than cache_duration; at an age equal to
\* cache_duration it fetches.
C21_FetchUnlessFresh ==
    \A j \in DOMAIN callLog :
        callLog[j].fetched <=>
            ~(/\ callLog[j].hadPhotos
              /\ callLog[j].age # None
              /\ callLog[j].age < cache_duration)

\* C24: current_photo_index is an index of photo_cache whenever photo_cache is
\* not empty.
C24_IndexInRange == photo_cache # <<>> => current_photo_index < Len(photo_cache)

\* C30: a get_next_photo call that follows another without a refresh returns
\* the photo at the next position of the cached list, wrapping to 0 after the
\* last.
C30_CyclicOrder ==
    \A j \in DOMAIN callLog :
        (j > 1 /\ ~callLog[j].fetched /\ callLog[j].hadPhotos)
        => (/\ callLog[j].ret = "photo"
            /\ callLog[j - 1].ret = "photo"
            /\ callLog[j].pos = (callLog[j - 1].pos + 1) % callLog[j - 1].len)

\* C22: when update_time_only makes the PartialLimit-th partial update and
\* restarts partial_update_count from 0, and nothing raises, the same call
\* repaints the whole image (epd.display) after the partial update.
C22_FullRefreshAfterPartials ==
    [][(/\ partial_update_count = PartialLimit - 1
        /\ partial_update_count' = 0
        /\ tickErrors' = {})
       => tickShown' = <<"time", "weather">>]_vars

\* C25: in a run whose ticks stop raising, every change of the minute is
\* eventually followed by a partial update or a full repaint that draws the
\* time, unless the loop has stopped.
C25_MinuteReachesPanel ==
    <>[](tickErrors = {}) => (timeStale ~> (~timeStale \/ Stopped))

\* C29: a tick of run in which epd.display raises leaves last_weather_hash,
\* last_minute and update_count as they were, so that the repaint is still due
\* with the same weather; update_count is 0 exactly as long as no repaint has
\* completed.
C29_FailedRepaintKeepsState ==
    /\ []((update_count = 0) <=> (painted = NoSnapshot))
    /\ [][(/\ prog = "eink"
           /\ \/ pc = "e_first" /\ pc' = "e_loop"
              \/ pc = "e_loop" /\ pc' = "e_minute" /\ sinceMain >= WeatherPeriod
           /\ "panel" \in tickErrors')
          => (/\ last_weather_hash' = last_weather_hash
              /\ last_minute' = last_minute
              /\ update_count' = update_count
              /\ \/ last_weather_hash' # WeatherHash(weather')
                 \/ update_count' % ForcedRepaintPeriod = 0)]_vars

C29_Witness ==
    /\ prog = "eink" /\ pc = "e_minute" /\ sinceMain = 0
    /\ "panel" \in tickErrors /\ tickShown = <<"weather">>
    /\ update_count >= 1 /\ last_weather_hash # WeatherHash(weather)

C26_PanelAsleepAfterDisplay ==
    (prog \in FramePrograms /\ pc \notin DisplayPcs) => epdState # "awake"

\* C27: receive_token answers 400 without touching .env or needs_reload; when
\* writing .env fails it answers 500 and leaves needs_reload as it was;
\* needs_reload becomes true only in the step that answers 200, with the token
\* of the request already in .env.
C27_TokenHandlerOrder ==
    [][/\ (response' = 400 /\ response # 400)
          => (envFile' = envFile /\ needs_reload' = needs_reload)
       /\ (hpc = "write" /\ hpc' = "idle")
          => (response' = 500 /\ needs_reload' = needs_reload)
       /\ (needs_reload' /\ ~needs_reload)
          => (hpc = "flag" /\ envFile = htoken /\ response' = 200)]_vars

C27_Witness ==
    /\ prog = "app" /\ hpc = "idle" /\ response = 500
    /\ envFile = 1 /\ htoken = 2 /\ ~needs_reload /\ pc \in CyclePcs

\* C28: from the step of update_display in which getting, downloading or
\* processing the next photo fails until the next tick starts,
\* current_photo_info, last_photo_update and update_count stay as they were
\* and the rotation is still due (should_update_photo is true).
C28_FailedFetchKeepsState ==
    [][(prog = "pds" /\ tickFetch' = "failed")
       => (/\ current_photo_info' = current_photo_info
           /\ last_photo_update' = last_photo_update
           /\ pds_update_count' = pds_update_count
           /\ \/ last_photo_update' = None
              \/ now' - last_photo_update' >= rotation_interval)]_vars

C28_Witness ==
    /\ prog = "pds" /\ pc = "p_sleep" /\ tickFetch = "failed"
    /\ current_photo_info # None /\ pds_update_count >= 1

====
